---------------------------- MODULE Spec2Model ----------------------------
(***************************************************************************)
(* Model of openaudible-audiobookshelf-watcher.                            *)
(*                                                                         *)
(* Five state machines share this module:                                  *)
(*   SpecTemplate  the path template code of ProcessBook (vars, values,    *)
(*                 util.format), applied to one template and one book;     *)
(*   SpecPass      one or more ProcessBooks passes over a manifest and a   *)
(*                 file system, called one after the other as the          *)
(*                 for-await loop calls them or while earlier passes are   *)
(*                 in progress as the listeners call them, with the        *)
(*                 per-file copy tasks interleaved as the event loop and   *)
(*                 the I/O thread pool interleave them;                    *)
(*   SpecFault     SpecPass with copyFile calls that may fail;             *)
(*   SpecWatch     the App watch loop in its four shapes: chokidar         *)
(*                 (src/src/app.ts), watchFile polling and debounced       *)
(*                 fs.watch (src/unnamed/part_002) and the plain for-await *)
(*                 loop (src/unnamed/part_001);                            *)
(*   SpecApp       App from its first line to watch mode, with the startup *)
(*                 pass in full.                                           *)
(*                                                                         *)
(* Strings are sequences of atoms.  An atom is either a punctuation mark   *)
(* ("{", "}", "/", "-", " ", "%", the two-character format directives "%s" *)
(* and "%%") or a maximal run of word characters ("author", "A", "7").     *)
(* Two adjacent word atoms never occur in a template of the model, so the  *)
(* regular expression \{[\w_]+\} matches exactly "{", one word atom, "}".  *)
(***************************************************************************)
EXTENDS Integers, Sequences, FiniteSets, TLC

VARIABLES
    \* ---- SpecTemplate
    template,     \* argv.template
    book,         \* the record being resolved
    resolved,     \* util.format(...) of ProcessBook, once computed
    tpc,          \* "ready" | "done"
    \* ---- SpecPass
    books,        \* the parsed manifest: a sequence of records
    files,        \* the file system: path -> size in bytes, or Absent
    dirs,         \* the directories that exist
    passNo,       \* number of ProcessBooks calls started so far
    ppc,          \* "idle" | "running": a ProcessBooks call is in progress
    recIdx,       \* index of the next record books.map(...) hands to ProcessBook
    tasks,        \* the copy tasks (copyPromises) of the calls in progress
    msgs,         \* the message each ProcessBook call, <<pass, record>>, returned
    faulty,       \* whether copyFile calls may fail in this behaviour
    snap,         \* history: the file system when the last pass started
    hist,         \* history: the task outcomes of each completed pass
    \* ---- SpecWatch
    mode,         \* which App: "chokidar" | "poll" | "debounce" | "iter"
    attached,     \* fs.watch still watches the file it opened
    away,         \* what that file holds while it is moved away from
                  \* books.json: "ok" | "bad", or "none" when it is not
    taken,        \* the for-await loop of mode "iter" has taken a 'change'
                  \* event and its body has not run yet
    wpc,          \* App: "start" | "startup" | "entering" | "watching" |
                  \* "exited" | "crashed"
    manifest,     \* books.json: "ok" | "bad" (does not parse) | "gone"
    mVer,         \* how often books.json has been written
    statVer,      \* watchFile: the version of books.json its last stat saw
    running,      \* the ProcessBooks calls in progress (their numbers)
    started,      \* number of ProcessBooks calls made so far
    lastRead,     \* the version of books.json the last call parsed
    timeoutRef,   \* `let timeoutRef` of the debounce branch is set
    timerLeft,    \* ticks until the setTimeout callback runs, or Absent
    queue,        \* events the watcher holds and the program has not taken yet
    nchg,         \* number of changes the environment has made so far
    obs           \* history: what the claims about the watch loop observe

tvars == <<template, book, resolved, tpc>>
pvars == <<books, files, dirs, passNo, ppc, recIdx, tasks, msgs, faulty, snap,
           hist>>
\* What no step of a pass changes.
wvars == <<mode, away, taken, attached, wpc, manifest, mVer, statVer, running, started, lastRead,
           timeoutRef, timerLeft, queue, nchg, obs>>
pfixed == <<books, faulty, template, book, resolved, tpc, wvars>>
vars == <<tvars, pvars, wvars>>

---------------------------------------------------------------------------
(* Generic helpers *)

Range(s) == {s[i] : i \in DOMAIN s}

RECURSIVE Concat(_)
\* Concatenation of a sequence of strings (sequences of atoms).
Concat(ss) == IF ss = <<>> THEN <<>> ELSE Head(ss) \o Concat(Tail(ss))

---------------------------------------------------------------------------
(* Path Template Engine: src/src/app.ts lines 89-101 *)

\* The atoms matched by [\w_]+ .
WordAtoms ==
    {"author", "title_short", "seconds", "nonexistent_field", "A", "T", "x"}
    \cup {"0", "1", "2", "3", "4", "5", "6", "7", "8", "9"}

IsWord(a) == a \in WordAtoms

\* A match of /\{[\w_]+\}/ starting at position i of t.
MatchAt(t, i) ==
    /\ i + 2 <= Len(t)
    /\ t[i] = "{"
    /\ IsWord(t[i + 1])
    /\ t[i + 2] = "}"

RECURSIVE VarsFrom(_, _)
\* The names of the non-overlapping matches of t from position i on, left to
\* right: [...template.matchAll(re)].map(clean => clean[0].substring(1, len-1)).
VarsFrom(t, i) ==
    IF i > Len(t) THEN <<>>
    ELSE IF MatchAt(t, i) THEN <<t[i + 1]>> \o VarsFrom(t, i + 3)
    ELSE VarsFrom(t, i + 1)

Vars(t) == VarsFrom(t, 1)

RECURSIVE PatternFrom(_, _)
\* template.replaceAll(re, '%s')
PatternFrom(t, i) ==
    IF i > Len(t) THEN <<>>
    ELSE IF MatchAt(t, i) THEN <<"%s">> \o PatternFrom(t, i + 3)
    ELSE <<t[i]>> \o PatternFrom(t, i + 1)

Pattern(t) == PatternFrom(t, 1)

Digit(d) == CASE d = 0 -> "0" [] d = 1 -> "1" [] d = 2 -> "2" [] d = 3 -> "3"
              [] d = 4 -> "4" [] d = 5 -> "5" [] d = 6 -> "6" [] d = 7 -> "7"
              [] d = 8 -> "8" [] OTHER -> "9"

RECURSIVE Decimal(_)
\* The decimal digits of a natural number, most significant first.
Decimal(n) == IF n < 10 THEN <<Digit(n)>>
              ELSE Decimal(n \div 10) \o <<Digit(n % 10)>>

\* String(book[v]) for the two kinds of field value the manifest holds:
\* a string is itself, a number is its decimal form, one atom per digit.
String(v) == IF v.t = "str" THEN v.s ELSE Decimal(v.n)

\* Object.keys(book): the field names in the record's own order.
Keys(b) == [i \in DOMAIN b.fields |-> b.fields[i].k]

HasField(b, name) == \E i \in DOMAIN b.fields : b.fields[i].k = name

\* book[name] of a field the record holds.
Field(b, name) ==
    b.fields[CHOOSE i \in DOMAIN b.fields : b.fields[i].k = name].v

\* Object.keys(book).filter(v => vars.includes(v)).map(v => String(book[v])):
\* one value per FIELD OF THE RECORD that the template names, in the record's
\* key order.
Values(b, names) ==
    LET keep == SelectSeq(Keys(b), LAMBDA k : k \in Range(names))
    IN  [i \in DOMAIN keep |-> String(Field(b, keep[i]))]

RECURSIVE FormatScan(_, _, _)
\* The scanning loop of util.format over the format string f, from position i,
\* with the arguments args not yet consumed.  Returns the text produced and
\* the arguments left over.  "%s" takes the next argument when one is left and
\* stays as it is otherwise; "%%" becomes "%".  A "%" right before "%s" is the
\* text %%s: the directive is "%%", and what is produced is the text %s.
FormatScan(f, i, args) ==
    IF i > Len(f) THEN [out |-> <<>>, rest |-> args]
    ELSE IF f[i] = "%" /\ i < Len(f) /\ f[i + 1] = "%s"
         THEN LET r == FormatScan(f, i + 2, args)
              IN  [out |-> <<"%s">> \o r.out, rest |-> r.rest]
    ELSE IF f[i] = "%s" /\ args # <<>>
         THEN LET r == FormatScan(f, i + 1, Tail(args))
              IN  [out |-> Head(args) \o r.out, rest |-> r.rest]
    ELSE IF f[i] = "%%"
         THEN LET r == FormatScan(f, i + 1, args)
              IN  [out |-> <<"%">> \o r.out, rest |-> r.rest]
    ELSE LET r == FormatScan(f, i + 1, args)
         IN  [out |-> <<f[i]>> \o r.out, rest |-> r.rest]

RECURSIVE JoinRest(_)
\* The arguments util.format did not consume, each appended after a space.
JoinRest(args) ==
    IF args = <<>> THEN <<>> ELSE <<" ">> \o Head(args) \o JoinRest(Tail(args))

\* util.format(f, ...args) for a string f and string arguments.  With no
\* argument the format string is returned untouched.
Format(f, args) ==
    IF args = <<>> THEN f
    ELSE LET r == FormatScan(f, 1, args) IN r.out \o JoinRest(r.rest)

\* util.format(argv.template.replaceAll(re, '%s'), ...values)
Resolve(t, b) == Format(Pattern(t), Values(b, Vars(t)))

---------------------------------------------------------------------------
(* Inputs of SpecTemplate *)

Str(a) == [t |-> "str", s |-> <<a>>]
Num(n) == [t |-> "num", n |-> n]

\* The largest numeric field value of the model's records.
MaxSeconds == 12

FieldNames == {"author", "title_short", "seconds"}

FieldValues(k) ==
    CASE k = "author"      -> {Str("A")}
      [] k = "title_short" -> {Str("T")}
      [] OTHER             -> {Num(7), Num(MaxSeconds)}

\* Every ordering of every subset of the field names.
KeyOrders ==
    {ks \in UNION {[1..n -> FieldNames] : n \in 0..Cardinality(FieldNames)} :
        \A i, j \in DOMAIN ks : i # j => ks[i] # ks[j]}

FieldLists ==
    UNION {
        {fs \in [DOMAIN ks -> UNION {{[k |-> k, v |-> v] : v \in FieldValues(k)}
                                      : k \in FieldNames}] :
            \A i \in DOMAIN ks : fs[i].k = ks[i]}
        : ks \in KeyOrders}

TemplateBooks == {[fields |-> fs, files |-> <<>>] : fs \in FieldLists}

DefaultTemplate == <<"{", "author", "}", "/", "{", "title_short", "}">>

Templates == {
    DefaultTemplate,
    <<"{", "title_short", "}", "/", "{", "author", "}">>,
    <<"{", "nonexistent_field", "}", "/", "{", "title_short", "}">>,
    <<"{", "author", "}", "/", "{", "author", "}">>,
    <<"{", "seconds", "}", "-", "{", "author", "}">>,
    <<"x", "/", "{", "title_short", "}">>,
    <<"%s", "/", "{", "author", "}">>,
    <<"{", "author", "}", "%%", "{", "{", "title_short", "}">>,
    <<"%", "{", "author", "}">>,
    <<"x">>
}

---------------------------------------------------------------------------
(* Paths: node:path join, basename.  A path string is a sequence of atoms  *)
(* with "/" as separator; a path is the sequence of its segments.          *)

RECURSIVE SplitFrom(_, _, _)
SplitFrom(s, i, cur) ==
    IF i > Len(s) THEN <<cur>>
    ELSE IF s[i] = "/" THEN <<cur>> \o SplitFrom(s, i + 1, <<>>)
    ELSE SplitFrom(s, i + 1, Append(cur, s[i]))

\* s.split('/')
Split(s) == SplitFrom(s, 1, <<>>)

RECURSIVE NormalizeSegs(_, _)
\* path.normalize on the segments of a relative path: empty and "." segments
\* are dropped, ".." removes the segment before it when there is one.
NormalizeSegs(segs, acc) ==
    IF segs = <<>> THEN acc
    ELSE LET h == Head(segs) IN
         IF h = <<>> \/ h = <<".">> THEN NormalizeSegs(Tail(segs), acc)
         ELSE IF h = <<"..">> /\ acc # <<>> /\ acc[Len(acc)] # <<"..">>
              THEN NormalizeSegs(Tail(segs), SubSeq(acc, 1, Len(acc) - 1))
         ELSE NormalizeSegs(Tail(segs), Append(acc, h))

RECURSIVE SegsOf(_)
SegsOf(parts) ==
    IF parts = <<>> THEN <<>> ELSE Split(Head(parts)) \o SegsOf(Tail(parts))

\* path.join(...parts)
PathJoin(parts) == NormalizeSegs(SegsOf(parts), <<>>)

\* path.basename(s)
BaseName(s) ==
    LET segs == SelectSeq(Split(s), LAMBDA g : g # <<>>)
    IN  IF segs = <<>> THEN <<>> ELSE segs[Len(segs)]

\* The directories mkdirSync(p, {recursive: true}) makes sure exist.
Prefixes(p) == {SubSeq(p, 1, n) : n \in 1..Len(p)}

---------------------------------------------------------------------------
(* Copy Planner and Copy Executor: ProcessBook, src/src/app.ts 86-168 *)

\* argv.input and argv.output
InputRoot == <<"in">>
OutputRoot == <<"out">>

\* A path that names no file.
Absent == 0 - 1

\* The largest file size of the model, in copy chunks.
MaxSize == 2
Sizes == 1..MaxSize

\* How many ProcessBooks calls a behaviour of SpecPass runs.
MaxPasses == 2

\* How many ProcessBooks calls a behaviour of SpecFault runs, and how many of
\* its copyFile calls fail at most.
FaultPasses == 2
MaxFaults == 1

PassLimit == IF faulty THEN FaultPasses ELSE MaxPasses

\* outputPath = path.join(argv.output, util.format(...))
OutputPath(t, b) == PathJoin(<<OutputRoot, Resolve(t, b)>>)

\* A planner that makes a task of every file of the record, whatever its kind.
SourceFiles_AllKinds(b, outputPath) ==
    [i \in DOMAIN b.files |->
        [input  |-> PathJoin(<<InputRoot, <<"books">>, b.files[i].path>>),
         output |-> NormalizeSegs(outputPath \o <<BaseName(b.files[i].path)>>, <<>>)]]
\* sourceFiles = book.files.filter(f => f.kind === 'audio').map(f => ({input, output}))
SourceFiles(b, outputPath) ==
    LET audio == SelectSeq(b.files, LAMBDA f : f.kind = "audio")
    IN  [i \in DOMAIN audio |->
            [input  |-> PathJoin(<<InputRoot, <<"books">>, audio[i].path>>),
             output |-> NormalizeSegs(outputPath \o <<BaseName(audio[i].path)>>, <<>>)]]

\* Two faulty comparisons, to test that the claims rest on the right one:
\* copy only a larger source, and copy always.
SizesDiffer_Greater(a, b) == a > b
SizesDiffer_Always(a, b) == TRUE
\* inputStats.size !== outputStats.size
SizesDiffer(a, b) == a # b

\* The branch a task takes in its synchronous part: existsSync(f.input), then
\* existsSync(f.output).
FirstStep(srcEx, dstEx) ==
    IF ~srcEx THEN "failed"
    ELSE IF dstEx THEN "statIn"
    ELSE "copy"

NewTask(p, r, sf) ==
    [pass |-> p, rec |-> r, input |-> sf.input, output |-> sf.output, pc |-> "new",
     srcEx |-> FALSE, dstEx |-> FALSE, inSz |-> Absent, outSz |-> Absent,
     len |-> 0, off |-> 0, wrote |-> FALSE, threw |-> FALSE,
     outcome |-> "none", logged |-> Absent]

Max(a, b) == IF a >= b THEN a ELSE b

SweepDone == recIdx > Len(books) /\ \A i \in DOMAIN tasks : tasks[i].pc # "new"

\* The synchronous run of the latest ProcessBooks call, books.map with the
\* synchronous part of every ProcessBook call and of every copy task, is
\* over, given the tasks ts and the planning position ri.
SyncOver(ts, ri) == ri > Len(books) /\ \A i \in DOMAIN ts : ts[i].pc # "new"

\* The ProcessBooks calls the state keeps: the latest one, pn, and the earlier
\* ones that were in progress when a later one was called.
Tracked(ts, pn) == {pn} \cup {ts[i].pass : i \in DOMAIN ts}

\* A ProcessBook that returns without awaiting its copy tasks.
Settled_NoAwait(ts, ri, pn) ==
    {pr \in Tracked(ts, pn) \X (1..Len(books)) : pr[1] < pn \/ pr[2] < ri}
\* The ProcessBook calls, <<pass, record>>, that have returned their message
\* after `await Promise.all(copyPromises)`.  The await always yields: the
\* call resumes in the microtasks that follow the synchronous run of its
\* ProcessBooks call when all its tasks have settled by then, and else in
\* those of the step that settles its last task.
Settled(ts, ri, pn) ==
    {pr \in Tracked(ts, pn) \X (1..Len(books)) :
        /\ pr[1] < pn \/ SyncOver(ts, ri)
        /\ \A i \in DOMAIN ts :
              (ts[i].pass = pr[1] /\ ts[i].rec = pr[2]) => ts[i].pc = "done"}

\* `await Promise.all(books.map(ProcessBook(argv)))`: a ProcessBooks call is
\* over once every record was planned and every ProcessBook call of it has
\* returned.
PassOver(ts, ri, pn) ==
    {p \in Tracked(ts, pn) :
        /\ p < pn \/ ri > Len(books)
        /\ \A r \in 1..Len(books) : <<p, r>> \in Settled(ts, ri, pn)}

\* A ProcessBook that returns the failure message when a copy task of the
\* record failed.
Messages_Escalate(ms, ts, ri, pn) ==
    [pr \in DOMAIN ms \cup Settled(ts, ri, pn) |->
        IF pr \in DOMAIN ms THEN ms[pr]
        ELSE IF \E i \in DOMAIN ts :
                    /\ ts[i].pass = pr[1] /\ ts[i].rec = pr[2]
                    /\ ts[i].outcome = "failed"
             THEN "error" ELSE "ok"]
\* The messages ms, and the success message of line 160-161 for every
\* ProcessBook call that has returned without one.
Messages(ms, ts, ri, pn) ==
    [pr \in DOMAIN ms \cup Settled(ts, ri, pn) |->
        IF pr \in DOMAIN ms THEN ms[pr] ELSE "ok"]

\* The outcomes of the tasks of ProcessBooks call p, in task order: for each
\* its destination, the outcome it logged and whether its copyFile rejected.
OutcomesOf(ts, p) ==
    LET tp == SelectSeq(ts, LAMBDA t : t.pass = p)
    IN  [i \in DOMAIN tp |-> [output |-> tp[i].output,
                              outcome |-> tp[i].outcome,
                              threw |-> tp[i].threw]]

RECURSIVE Collected(_, _)
\* One entry per ProcessBooks call of the set ps, in call order.
Collected(ts, ps) ==
    IF ps = {} THEN <<>>
    ELSE LET p == CHOOSE x \in ps : \A y \in ps : x <= y
         IN  <<OutcomesOf(ts, p)>> \o Collected(ts, ps \ {p})

\* What a step that leaves the messages ms (before the returns of the step),
\* the tasks ts, the planning position ri and the latest call pn does to the
\* messages and to the ProcessBooks calls in progress.
JoinAs(ms, ts, ri, pn) ==
    /\ msgs' = Messages(ms, ts, ri, pn)
    /\ ppc' = IF Tracked(ts, pn) \subseteq PassOver(ts, ri, pn)
              THEN "idle" ELSE "running"
    /\ hist' = hist \o Collected(ts, PassOver(ts, ri, pn)
                                       \ PassOver(tasks, recIdx, passNo))

Join(ts, ri) == JoinAs(msgs, ts, ri, passNo)

\* The catch of a copy task: the failure is logged and the task's promise is
\* fulfilled; no other task is touched.
OnThrow(ts, i) ==
    [ts EXCEPT ![i] = [@ EXCEPT !.pc = "done", !.outcome = "failed"]]

\* The caller of ProcessBooks is ready to call it.  The for-await loop of
\* mode "iter" awaits each call before it takes the next event; the handlers
\* of the other modes call it on every event, whether or not an earlier call
\* has completed.
CallerReady == mode = "iter" => ppc = "idle"

\* ProcessBooks(booksJsonPath, argv) is called: the manifest is read and
\* parsed.  Nothing in ProcessBooks waits for an earlier call: it can be
\* called whenever no JavaScript is running, also while the copies of
\* earlier calls are in progress.  The state keeps the tasks and messages of
\* the calls that are still in progress.
PassBegin ==
    LET keep == {tasks[i].pass : i \in {j \in DOMAIN tasks : tasks[j].pc # "done"}}
           ts == SelectSeq(tasks, LAMBDA t : t.pass \in keep)
           ms == [pr \in {q \in DOMAIN msgs : q[1] \in keep} |-> msgs[pr]]
    IN  /\ passNo' = passNo + 1
        /\ recIdx' = 1
        /\ tasks' = ts
        /\ snap' = files
        /\ JoinAs(ms, ts, 1, passNo + 1)

\* ProcessBooks is called by a caller that is ready, within the bound on
\* the number of calls.
PassStart ==
    /\ CallerReady
    /\ ppc = "idle" \/ SweepDone
    /\ passNo < PassLimit
    /\ PassBegin
    /\ UNCHANGED <<files, dirs, pfixed>>

\* ProcessBook(argv)(book) up to the creation of its copy tasks: the target
\* directory is resolved and made, the audio files are selected.
PlanRecord ==
    /\ ppc = "running"
    /\ recIdx <= Len(books)
    /\ \A i \in DOMAIN tasks : tasks[i].pc # "new"
    /\ LET b == books[recIdx]
           outputPath == OutputPath(template, b)
           sfs == SourceFiles(b, outputPath)
           ts == tasks \o [i \in DOMAIN sfs |-> NewTask(passNo, recIdx, sfs[i])]
       IN  /\ dirs' = IF outputPath \in dirs THEN dirs
                      ELSE dirs \cup Prefixes(outputPath)
           /\ tasks' = ts
           /\ recIdx' = recIdx + 1
           /\ Join(ts, recIdx + 1)
    /\ UNCHANGED <<files, passNo, snap, pfixed>>

\* The synchronous part of one copy task, in the order sourceFiles.map runs
\* them: the two existsSync calls, then stat or copyFile is issued, or the
\* task throws File not found and its catch logs the failure.
SweepTask(i) ==
    /\ ppc = "running"
    /\ tasks[i].pc = "new"
    /\ \A j \in 1..(i - 1) : tasks[j].pc # "new"
    /\ LET t == tasks[i]
           srcEx == files[t.input] # Absent
           dstEx == files[t.output] # Absent
           step == FirstStep(srcEx, dstEx)
           seen == [tasks EXCEPT ![i] =
                      [t EXCEPT !.srcEx = srcEx, !.dstEx = srcEx /\ dstEx]]
           ts == IF step = "failed" THEN OnThrow(seen, i)
                 ELSE [seen EXCEPT ![i] = [@ EXCEPT !.pc = step]]
       IN  /\ tasks' = ts
           /\ Join(ts, recIdx)
    /\ UNCHANGED <<files, dirs, passNo, recIdx, snap, pfixed>>

\* await stat(f.input, {bigint: true})
StatIn(i) ==
    /\ ppc = "running"
    /\ SweepDone
    /\ tasks[i].pc = "statIn"
    /\ LET t == tasks[i]
           sz == files[t.input]
           ts == IF sz = Absent THEN OnThrow(tasks, i)
                 ELSE [tasks EXCEPT ![i] =
                         [t EXCEPT !.pc = "statOut", !.inSz = sz]]
       IN  /\ tasks' = ts
           /\ Join(ts, recIdx)
    /\ UNCHANGED <<files, dirs, passNo, recIdx, snap, pfixed>>

\* await stat(f.output, {bigint: true}) and the size comparison.
StatOut(i) ==
    /\ ppc = "running"
    /\ SweepDone
    /\ tasks[i].pc = "statOut"
    /\ LET t == tasks[i]
           sz == files[t.output]
           ts == IF sz = Absent THEN OnThrow(tasks, i)
                 ELSE [tasks EXCEPT ![i] =
                         IF SizesDiffer(t.inSz, sz)
                         THEN [t EXCEPT !.pc = "copy", !.outSz = sz]
                         ELSE [t EXCEPT !.pc = "done", !.outSz = sz,
                                        !.outcome = "skipped"]]
       IN  /\ tasks' = ts
           /\ Join(ts, recIdx)
    /\ UNCHANGED <<files, dirs, passNo, recIdx, snap, pfixed>>

\* copyFile(f.input, f.output) starts in the thread pool: the source is
\* opened and measured, the destination is created or truncated.
CopyBegin(i) ==
    /\ ppc = "running"
    /\ tasks[i].pc = "copy"
    /\ files[tasks[i].input] # Absent
    /\ tasks' = [tasks EXCEPT ![i] =
                    [@ EXCEPT !.pc = "copying", !.len = files[tasks[i].input],
                              !.off = 0, !.wrote = TRUE]]
    /\ files' = [files EXCEPT ![tasks[i].output] = 0]
    /\ UNCHANGED <<dirs, passNo, ppc, recIdx, msgs, snap, hist, pfixed>>

\* copyFile writes its next chunk at its own offset; after the last chunk the
\* copy is complete.
CopyWrite(i) ==
    /\ ppc = "running"
    /\ tasks[i].pc = "copying"
    /\ tasks[i].off < tasks[i].len
    /\ LET t == tasks[i]
           off == t.off + 1
       IN  /\ tasks' = [tasks EXCEPT ![i] =
                          [t EXCEPT !.off = off,
                                    !.pc = IF off = t.len THEN "copied"
                                           ELSE "copying"]]
           /\ files' = [files EXCEPT ![t.output] =
                          IF @ = Absent THEN Absent ELSE Max(@, off)]
    /\ UNCHANGED <<dirs, passNo, ppc, recIdx, msgs, snap, hist, pfixed>>

\* The task resumes after copyFile: await stat(f.output) and the Copied log.
StatAfter(i) ==
    /\ ppc = "running"
    /\ SweepDone
    /\ tasks[i].pc = "copied"
    /\ LET t == tasks[i]
           sz == files[t.output]
           ts == IF sz = Absent THEN OnThrow(tasks, i)
                 ELSE [tasks EXCEPT ![i] =
                         [t EXCEPT !.pc = "done", !.outcome = "copied",
                                   !.logged = sz]]
       IN  /\ tasks' = ts
           /\ Join(ts, recIdx)
    /\ UNCHANGED <<files, dirs, passNo, recIdx, snap, pfixed>>

---------------------------------------------------------------------------
(* Inputs of SpecPass *)

Audio(p) == [path |-> p, kind |-> "audio"]
Image(p) == [path |-> p, kind |-> "image"]

AuthorTitle == <<[k |-> "author", v |-> Str("A")],
                 [k |-> "title_short", v |-> Str("T")]>>
TitleAuthor == <<[k |-> "title_short", v |-> Str("T")],
                 [k |-> "author", v |-> Str("A")]>>

\* Two audio files.
BookTwo == [fields |-> AuthorTitle,
            files |-> <<Audio(<<"x.m4b">>), Audio(<<"y.m4b">>)>>]
\* An audio file in a subdirectory, with the base name of BookTwo's first
\* file, and a cover image.
BookSub == [fields |-> AuthorTitle,
            files |-> <<Audio(<<"d", "/", "x.m4b">>), Image(<<"c.jpg">>)>>]
\* The fields in the other order.
BookRev == [fields |-> TitleAuthor, files |-> <<Audio(<<"x.m4b">>)>>]
\* No audio file.
BookNone == [fields |-> AuthorTitle, files |-> <<Image(<<"c.jpg">>)>>]

\* One audio file, the first of BookTwo.
BookOne == [fields |-> AuthorTitle, files |-> <<Audio(<<"x.m4b">>)>>]

Manifests == {
    <<BookTwo>>,
    <<BookTwo, BookSub>>,
    <<BookSub, BookRev>>,
    <<BookNone, BookRev>>,
    <<>>
}

\* The manifests of SpecFault: at most two copy tasks in a pass, among them
\* two tasks of one record and two tasks of two records with one destination.
FaultManifests == {
    <<BookTwo>>,
    <<BookOne, BookSub>>,
    <<BookSub, BookRev>>,
    <<BookNone, BookRev>>,
    <<>>
}

TasksOfBook(b) == Range(SourceFiles(b, OutputPath(DefaultTemplate, b)))

TasksOfManifest(m) == UNION {TasksOfBook(b) : b \in Range(m)}

PathsOfManifest(m) ==
    {t.input : t \in TasksOfManifest(m)} \cup {t.output : t \in TasksOfManifest(m)}

AllPaths == UNION {PathsOfManifest(m) : m \in Manifests}

\* The directory a file is in.
Parent(p) == SubSeq(p, 1, Len(p) - 1)

BaseDirs == {<<InputRoot>>, <<InputRoot, <<"books">>>>, <<OutputRoot>>}

\* The variables of SpecTemplate in the other specifications.
TemplateUnused ==
    /\ book = [fields |-> <<>>, files |-> <<>>]
    /\ resolved = <<>>
    /\ tpc = "unused"

\* The history of the watch loop, before anything has happened.
\* cur: the first pass during which a change signal arrived;
\* procSig: how many signals arrived during it; follow: the passes started
\* since the first of them; other: a signal arrived after cur completed.
\* n: the signals that arrived within WaitTicks of the first signal; el: the
\* ticks since the first signal; pass: the passes started since; spoiled: a
\* signal arrived later than that.  late: books.json was last written while
\* the watcher was installed.  sig: SIGINT has been sent to the process; cut:
\* the passes that were in progress when the process exited.  last: the ticks
\* since the most recent change signal, counted up to the debounce interval;
\* gap: what last was when the most recent triggered pass was started.
\* timers: the setTimeout timers that were set and have not run.
ObsInit == [cur |-> 0, procSig |-> 0, follow |-> 0, other |-> FALSE,
            n |-> 0, el |-> 0, pass |-> 0, spoiled |-> FALSE, late |-> FALSE,
            sig |-> FALSE, cut |-> {}, last |-> Absent, gap |-> Absent,
            timers |-> 0]

\* The variables of SpecWatch in the other specifications.
WatchIdle ==
    /\ attached = FALSE
    /\ away = "none"
    /\ taken = FALSE
    /\ wpc = "unused"
    /\ manifest = "ok"
    /\ mVer = 0
    /\ statVer = 0
    /\ running = {}
    /\ started = 0
    /\ lastRead = 0
    /\ timeoutRef = FALSE
    /\ timerLeft = Absent
    /\ queue = <<>>
    /\ nchg = 0
    /\ obs = ObsInit

WatchUnused == mode = "none" /\ WatchIdle

\* The manifests of the passes whose calls overlap: one copy task in a pass.
OverlapManifests == {
    <<BookOne>>,
    <<BookNone, BookRev>>
}

\* The manifests, by how the passes are called and whether copies fail.
Inputs ==
    IF mode # "iter" THEN OverlapManifests
    ELSE IF faulty THEN FaultManifests ELSE Manifests

\* The directories of the file system f.
DirsOf(f) ==
    BaseDirs \cup
        UNION {Prefixes(Parent(p)) : p \in {q \in AllPaths : f[q] # Absent}}

\* A manifest and a file system, before the first ProcessBooks call.
InitTrees ==
    /\ template = DefaultTemplate
    /\ books \in Inputs
    /\ files \in [AllPaths -> {Absent} \cup Sizes]
    /\ \A p \in AllPaths \ PathsOfManifest(books) : files[p] = Absent
    /\ dirs = DirsOf(files)
    /\ passNo = 0
    /\ ppc = "idle"
    /\ recIdx = 1
    /\ tasks = <<>>
    /\ msgs = <<>>
    /\ snap = files
    /\ hist = <<>>
    /\ TemplateUnused

InitFiles == InitTrees /\ WatchIdle

\* The passes as App calls them: one after the other (mode "iter") or on
\* every event (mode "chokidar").
InitPass == faulty = FALSE /\ mode \in {"iter", "chokidar"} /\ InitFiles

PassUnused ==
    /\ books = <<>>
    /\ faulty = FALSE
    /\ files = [p \in AllPaths |-> Absent]
    /\ dirs = BaseDirs
    /\ passNo = 0
    /\ ppc = "unused"
    /\ recIdx = 1
    /\ tasks = <<>>
    /\ msgs = <<>>
    /\ snap = [p \in AllPaths |-> Absent]
    /\ hist = <<>>

\* The steps of the ProcessBooks calls in progress.
PassSteps ==
    \/ PlanRecord
    \/ \E i \in DOMAIN tasks : SweepTask(i)
    \/ \E i \in DOMAIN tasks : StatIn(i)
    \/ \E i \in DOMAIN tasks : StatOut(i)
    \/ \E i \in DOMAIN tasks : CopyBegin(i)
    \/ \E i \in DOMAIN tasks : CopyWrite(i)
    \/ \E i \in DOMAIN tasks : StatAfter(i)

NextPass ==
    \/ PassStart
    \/ PassSteps

SpecPass == InitPass /\ [][NextPass]_vars

---------------------------------------------------------------------------
(* SpecFault: SpecPass with copyFile calls that fail *)

\* The exceptions the passes in progress have met so far: rejected copyFile
\* calls and throwing mkdirSync calls.
Faults ==
    Cardinality({j \in DOMAIN tasks : tasks[j].threw})
        + Cardinality({r \in DOMAIN msgs : msgs[r] = "error"})

\* copyFile rejects.  Before the destination is opened nothing has changed.
\* After that, Node removes the destination ("if an error occurs after the
\* destination file has been opened for writing, Node.js will attempt to
\* remove the destination"): the attempt may itself fail and leave what was
\* written.
CopyFail(i) ==
    /\ ppc = "running"
    /\ faulty
    /\ Faults < MaxFaults
    /\ tasks[i].pc \in {"copy", "copying"}
    /\ tasks' = [tasks EXCEPT ![i] = [@ EXCEPT !.pc = "threw", !.threw = TRUE]]
    /\ IF tasks[i].pc = "copy"
       THEN files' = files
       ELSE \E left \in {Absent, files[tasks[i].output]} :
                files' = [files EXCEPT ![tasks[i].output] = left]
    /\ UNCHANGED <<dirs, passNo, ppc, recIdx, msgs, snap, hist, pfixed>>

\* The task resumes in its catch block with the error of copyFile.
Catch(i) ==
    /\ ppc = "running"
    /\ SweepDone
    /\ tasks[i].pc = "threw"
    /\ LET ts == OnThrow(tasks, i)
       IN  /\ tasks' = ts
           /\ Join(ts, recIdx)
    /\ UNCHANGED <<files, dirs, passNo, recIdx, snap, pfixed>>

\* The outer catch of ProcessBook returns the success message.
OnPlanThrow_Success(ms, r) == ms
\* The outer catch of ProcessBook, lines 162-166: the call r, <<pass,
\* record>>, returns the failure message at once.
OnPlanThrow(ms, r) ==
    [x \in DOMAIN ms \cup {r} |-> IF x = r THEN "error" ELSE ms[x]]

\* mkdirSync(outputPath, {recursive: true}) throws after it has made the
\* first n directories of the path: ProcessBook goes to its outer catch
\* before sourceFiles is built, and returns.
PlanFail ==
    /\ ppc = "running"
    /\ faulty
    /\ Faults < MaxFaults
    /\ recIdx <= Len(books)
    /\ \A i \in DOMAIN tasks : tasks[i].pc # "new"
    /\ LET outputPath == OutputPath(template, books[recIdx])
       IN  /\ outputPath \notin dirs
           /\ \E n \in 1..(Len(outputPath) - 1) :
                 dirs' = dirs \cup {SubSeq(outputPath, 1, k) : k \in 1..n}
    /\ recIdx' = recIdx + 1
    /\ JoinAs(OnPlanThrow(msgs, <<passNo, recIdx>>), tasks, recIdx + 1, passNo)
    /\ UNCHANGED <<files, tasks, passNo, snap, pfixed>>

NextFault ==
    \/ NextPass
    \/ PlanFail
    \/ \E i \in DOMAIN tasks : CopyFail(i)
    \/ \E i \in DOMAIN tasks : Catch(i)

\* The passes with failing copies are called one after the other.
InitFault == faulty = TRUE /\ mode = "iter" /\ InitFiles

SpecFault == InitFault /\ [][NextFault]_vars

---------------------------------------------------------------------------
(* SpecTemplate *)

InitTemplate ==
    /\ template \in Templates
    /\ book \in TemplateBooks
    /\ resolved = <<>>
    /\ tpc = "ready"
    /\ PassUnused
    /\ WatchUnused

\* The template lines of ProcessBook.
ResolveTemplate ==
    /\ tpc = "ready"
    /\ resolved' = Resolve(template, book)
    /\ tpc' = "done"
    /\ UNCHANGED <<template, book, pvars, wvars>>

NextTemplate == ResolveTemplate

SpecTemplate == InitTemplate /\ [][NextTemplate]_vars

---------------------------------------------------------------------------
(* Watch Loop: App.  mode "chokidar" is src/src/app.ts 180-232, "poll" and *)
(* "debounce" are the two branches of src/unnamed/part_002 185-261, "iter" *)
(* is src/unnamed/part_001 179-202.  A ProcessBooks call is seen here from *)
(* outside: it reads and parses books.json in the step that calls it and   *)
(* completes in a later step, when its copies are done.  Time passes in    *)
(* ticks; in mode "poll" a tick is one interval of watchFile.              *)

Modes == {"chokidar", "poll", "debounce", "iter"}

\* argv.wait_seconds, in ticks.
WaitTicks == 2

\* How many changes the environment makes in a behaviour.
MaxChanges == 3

\* JSON.parse(fs.readFileSync(booksJsonPath).toString()) returns.
Parses(m) == m = "ok"

\* The states of books.json a change can leave.
Contents == {"ok", "bad", "gone"}

\* The ways books.json is changed: written in place (or created), replaced
\* by a file renamed onto it, removed (unlink), moved to another directory,
\* or the file fs.watch watches is moved back from there (restore).
Ops(m) ==
    IF m = "gone" THEN {"unlink", "move"} ELSE {"write", "replace", "restore"}

\* The inotify events of a change of the watched file, in order.  fs.watch
\* watches the file, not its name: a write modifies it; a file that loses its
\* name to an unlink or to a file renamed onto it has its attributes changed
\* (the link count), is deleted and its watch is removed; a file that is
\* moved, away or back, is moved and stays watched.
EventTypes(op) ==
    IF op = "write" THEN <<"modify">>
    ELSE IF op \in {"move", "restore"} THEN <<"move_self">>
    ELSE <<"attrib", "delete_self", "ignored">>

\* event.eventType of an inotify event: 'change' for a change of content or
\* of attributes, 'rename' for every other.
EventType(e) == IF e \in {"modify", "attrib"} THEN "change" ELSE "rename"

\* The file fs.watch watches is books.json.
Here == attached /\ away = "none"

\* The events the watcher reports for the change op of books.json: those of
\* the file it watches, when the change is a change of that file.
Events(op) == IF Here \/ op = "restore" THEN EventTypes(op) ELSE <<>>

\* Whether fs.watch still has a file to watch after the change op: the
\* watch ends with the file.
Attached(op) == attached /\ ~(Here /\ op \in {"unlink", "replace"})

\* What the watched file holds, away from books.json, after the change op.
Away(op) ==
    IF Here /\ op = "move" THEN manifest
    ELSE IF op = "restore" THEN "none"
    ELSE away

RECURSIVE Coalesce(_, _)
\* The events evs reach the events q that have not been read: an event equal
\* to the last unread one is not reported a second time.
Coalesce(q, evs) ==
    IF evs = <<>> THEN q
    ELSE Coalesce(IF q # <<>> /\ q[Len(q)] = Head(evs) THEN q
                  ELSE Append(q, Head(evs)),
                  Tail(evs))

\* The events chokidar passes to an 'all' listener.
ChokidarEvents == {"add", "addDir", "change", "unlink", "unlinkDir"}

Busy == running # {}

Min(S) == CHOOSE x \in S : \A y \in S : x <= y

\* A change signal reaches the program.
ObsSignal(o) ==
    LET o1 == IF Busy
              THEN IF o.cur = 0
                   THEN [o EXCEPT !.cur = Min(running), !.procSig = 1]
                   ELSE IF o.cur \in running
                        THEN [o EXCEPT !.procSig = @ + 1]
                        ELSE [o EXCEPT !.other = TRUE]
              ELSE IF o.cur # 0 THEN [o EXCEPT !.other = TRUE] ELSE o
        o2 == [o1 EXCEPT !.last = 0]
    IN  IF o2.n = 0 THEN [o2 EXCEPT !.n = 1]
        ELSE IF o2.el < WaitTicks THEN [o2 EXCEPT !.n = @ + 1]
        ELSE [o2 EXCEPT !.spoiled = TRUE]

\* ProcessBooks is called.
ObsPass(o) ==
    [o EXCEPT !.follow = IF o.cur # 0 THEN @ + 1 ELSE @,
              !.pass = IF o.n >= 1 THEN @ + 1 ELSE @,
              !.gap = IF o.last # Absent THEN o.last ELSE @]

\* A tick passes.
ObsTick(o) ==
    [o EXCEPT !.el = IF o.n >= 1 /\ @ < WaitTicks THEN @ + 1 ELSE @,
              !.last = IF @ # Absent /\ @ < WaitTicks THEN @ + 1 ELSE @]

\* A tick changes the history.
ObsClock(o) ==
    \/ o.n >= 1 /\ o.el < WaitTicks
    \/ o.last # Absent /\ o.last < WaitTicks

\* A faulty App, to test that the claims rest on the await of the startup
\* pass: watch mode is entered while the startup pass is in progress.
Call_NoAwait(o) ==
    /\ started' = started + 1
    /\ obs' = ObsPass(o)
    /\ IF Parses(manifest)
       THEN /\ running' = running \cup {started + 1}
            /\ lastRead' = mVer
            /\ wpc' = IF wpc = "start" THEN "watching" ELSE wpc
       ELSE /\ running' = {}
            /\ lastRead' = lastRead
            /\ wpc' = "crashed"

\* ProcessBooks(booksJsonPath, argv) up to its await, called from an async
\* function nobody catches the rejection of: books.json is read and parsed;
\* when that throws the rejection is unhandled and ends the process.
\* o is the history at the call.
Call(o) ==
    /\ started' = started + 1
    /\ obs' = ObsPass(o)
    /\ IF Parses(manifest)
       THEN /\ running' = running \cup {started + 1}
            /\ lastRead' = mVer
            /\ wpc' = IF wpc = "start" THEN "startup" ELSE wpc
       ELSE /\ running' = {}
            /\ lastRead' = lastRead
            /\ wpc' = "crashed"

\* A faulty App, to test that the claims rest on existsSync(booksJsonPath):
\* the startup pass is called whether books.json exists or not.
AppStart_NoCheck ==
    /\ wpc = "start"
    /\ Call(obs)

\* App up to `await ProcessBooks(...)`: existsSync(booksJsonPath), then the
\* startup pass is called; without books.json App throws.
AppStart ==
    /\ wpc = "start"
    /\ IF manifest = "gone"
       THEN /\ wpc' = "crashed"
            /\ UNCHANGED <<running, started, lastRead, obs>>
       ELSE Call(obs)

\* App starts; the pass it calls is seen from outside.
Startup ==
    /\ AppStart
    /\ UNCHANGED <<mode, away, taken, attached, manifest, mVer, statVer,
                   timeoutRef, timerLeft, queue, nchg, tvars, pvars>>

\* The modes whose watcher is fs.watch on books.json.
FileWatch == mode \in {"debounce", "iter"}

\* The startup pass completes: `await ProcessBooks(...)` resumes and App
\* goes on to enter watch mode, which takes it a while (console.log can
\* block).  In mode "poll" watchFile is called first, and its first stat is
\* the state it compares with; in the other modes nothing is installed
\* before the line is logged.
FinishStartup(id) ==
    /\ wpc = "startup"
    /\ id \in running
    /\ running' = running \ {id}
    /\ wpc' = "entering"
    /\ statVer' = IF mode = "poll" THEN mVer ELSE statVer
    /\ UNCHANGED <<mode, away, taken, attached, manifest, mVer, started,
                   lastRead, timeoutRef, timerLeft, queue, nchg, obs, tvars,
                   pvars>>

\* App has entered watch mode: the SIGINT handler is installed (not in mode
\* "iter", which has none) and, in the modes other than "poll", the watcher.
\* fs.watch watches the file that is books.json now, and throws when there
\* is none: App rejects and nobody catches it.
EnterWatch ==
    /\ wpc = "entering"
    /\ wpc' = IF FileWatch /\ manifest = "gone" THEN "crashed" ELSE "watching"
    /\ attached' = (FileWatch /\ manifest # "gone")
    /\ UNCHANGED <<mode, away, taken, manifest, mVer, statVer, running,
                   started, lastRead, timeoutRef, timerLeft, queue, nchg, obs,
                   tvars, pvars>>

\* A triggered pass completes: `await ProcessBooks(...)` resumes in the
\* listener, in the timer callback of "debounce", which goes on to clear
\* timeoutRef, or in the body of the for-await loop of "iter", which then
\* waits for the next event.
FinishPass(id) ==
    /\ wpc = "watching"
    /\ id \in running
    /\ running' = running \ {id}
    /\ timeoutRef' = IF mode = "debounce" THEN FALSE ELSE timeoutRef
    /\ UNCHANGED <<mode, away, taken, attached, wpc, manifest, mVer, statVer, started,
                   lastRead, timerLeft, queue, nchg, obs, tvars, pvars>>

\* books.json is written or removed while nothing watches it: during the
\* startup pass and until the watcher is installed, or in mode "chokidar",
\* where only the books directory is watched.
WriteUnwatched(m) ==
    /\ wpc \in {"startup", "entering", "watching"}
    /\ wpc = "entering" => mode # "poll"
    /\ wpc = "watching" => mode = "chokidar"
    /\ nchg < MaxChanges
    /\ ~(m = "gone" /\ manifest = "gone")
    /\ manifest' = m
    /\ mVer' = mVer + 1
    /\ nchg' = nchg + 1
    /\ obs' = [obs EXCEPT !.late = (wpc = "watching")]
    /\ UNCHANGED <<mode, away, taken, attached, wpc, statVer, running, started, lastRead, timeoutRef,
                   timerLeft, queue, tvars, pvars>>

\* books.json is written or removed in mode "poll": a later stat of
\* watchFile sees it.
WritePoll(m) ==
    /\ wpc \in {"entering", "watching"}
    /\ mode = "poll"
    /\ nchg < MaxChanges
    /\ ~(m = "gone" /\ manifest = "gone")
    /\ manifest' = m
    /\ mVer' = mVer + 1
    /\ nchg' = nchg + 1
    /\ obs' = [obs EXCEPT !.late = TRUE]
    /\ UNCHANGED <<mode, away, taken, attached, wpc, statVer, running, started, lastRead,
                   timeoutRef, timerLeft, queue, tvars, pvars>>

\* books.json is changed by another process while fs.watch is installed
\* (modes "debounce" and "iter"): the events of the change wait to be read.
\* The program has not reacted yet.
WriteWatched(m, op) ==
    /\ wpc = "watching"
    /\ FileWatch
    /\ nchg < MaxChanges
    /\ ~(m = "gone" /\ manifest = "gone")
    /\ op \in Ops(m)
    /\ op = "restore" => (attached /\ away = m)
    /\ manifest' = m
    /\ mVer' = mVer + 1
    /\ nchg' = nchg + 1
    /\ attached' = Attached(op)
    /\ away' = Away(op)
    /\ queue' = Coalesce(queue, Events(op))
    /\ obs' = [obs EXCEPT !.late = TRUE]
    /\ UNCHANGED <<mode, taken, wpc, statVer, running, started, lastRead,
                   timeoutRef, timerLeft, tvars, pvars>>

\* The file fs.watch watches is written (c is what it holds then) or removed
\* (c = "gone") while it is moved away from books.json: books.json is as it
\* was, and the watcher reports the events of its file.
WriteAway(c) ==
    /\ wpc = "watching"
    /\ FileWatch
    /\ nchg < MaxChanges
    /\ attached
    /\ away # "none"
    /\ nchg' = nchg + 1
    /\ attached' = (c # "gone")
    /\ away' = IF c = "gone" THEN "none" ELSE c
    /\ queue' = Coalesce(queue, EventTypes(IF c = "gone" THEN "unlink"
                                           ELSE "write"))
    /\ UNCHANGED <<mode, taken, wpc, manifest, mVer, statVer, running,
                   started, lastRead, timeoutRef, timerLeft, obs, tvars,
                   pvars>>

\* A loop body that sets a timer for every 'change' event.
Arms_Always(type, ref) == type = "change"
\* if (event.eventType === 'change') { ... if (!timeoutRef) { setTimeout
Arms(type, ref) == type = "change" /\ ~ref

\* The body of the for-await loop of mode "debounce" for the event e, on the
\* state st (the history, timeoutRef, the ticks left of the timer): a
\* 'change' sets the timer unless timeoutRef is set.
DebounceBody(st, e) ==
    LET type == EventType(e)
        o == IF type = "change" THEN ObsSignal(st.o) ELSE st.o
    IN  IF Arms(type, st.ref)
        THEN [o |-> [o EXCEPT !.timers = @ + 1], ref |-> TRUE,
              left |-> WaitTicks]
        ELSE [st EXCEPT !.o = o]

RECURSIVE DebounceLoop(_, _)
\* The for-await loop of mode "debounce" takes the events evs in order: its
\* body awaits nothing, so the loop is waiting again when the next event of
\* a batch is reported.
DebounceLoop(st, evs) ==
    IF evs = <<>> THEN st
    ELSE DebounceLoop(DebounceBody(st, Head(evs)), Tail(evs))

\* The event loop reads the events of books.json in mode "debounce" and the
\* for-await loop takes them.
TakeDebounce ==
    /\ wpc = "watching"
    /\ mode = "debounce"
    /\ queue # <<>>
    /\ queue' = <<>>
    /\ LET st == DebounceLoop([o |-> obs, ref |-> timeoutRef,
                               left |-> timerLeft], queue)
       IN  /\ obs' = st.o
           /\ timeoutRef' = st.ref
           /\ timerLeft' = st.left
    /\ UNCHANGED <<mode, away, taken, attached, wpc, manifest, mVer, statVer, running,
                   started, lastRead, nchg, tvars, pvars>>

\* The event loop reads an event of the watched file in mode "iter" and
\* reports it to the iterator of watch.  The iterator keeps no event: it
\* takes a 'change' when the loop waits for an event and drops what is
\* reported while the body awaits ProcessBooks or has an event to run for;
\* the body does nothing for a 'rename'.
TakeIter ==
    /\ wpc = "watching"
    /\ mode = "iter"
    /\ queue # <<>>
    /\ queue' = Tail(queue)
    /\ taken' = (taken \/ (~Busy /\ EventType(Head(queue)) = "change"))
    /\ UNCHANGED <<mode, away, attached, wpc, manifest, mVer, statVer,
                   running, started, lastRead, timeoutRef, timerLeft, nchg,
                   obs, tvars, pvars>>

\* The body of the for-await loop of mode "iter" runs for the event taken:
\* it logs the signal and calls ProcessBooks, which reads books.json as it
\* is now.  quick: the pass has nothing to await but promises that are
\* settled (no file to stat or copy) and is over before the next event is
\* reported.
IterBody(quick) ==
    /\ wpc = "watching"
    /\ mode = "iter"
    /\ taken
    /\ taken' = FALSE
    /\ IF quick /\ Parses(manifest)
       THEN /\ started' = started + 1
            /\ obs' = ObsPass(ObsSignal(obs))
            /\ lastRead' = mVer
            /\ UNCHANGED <<running, wpc>>
       ELSE Call(ObsSignal(obs))
    /\ UNCHANGED <<mode, away, attached, manifest, mVer, statVer, timeoutRef,
                   timerLeft, queue, nchg, tvars, pvars>>

\* chokidar reports an event of the books directory: watchThis calls
\* ProcessBooks.
DirEvent(ev) ==
    /\ wpc = "watching"
    /\ mode = "chokidar"
    /\ nchg < MaxChanges
    /\ ev \in ChokidarEvents
    /\ nchg' = nchg + 1
    /\ Call(ObsSignal(obs))
    /\ UNCHANGED <<mode, away, taken, attached, manifest, mVer, statVer, timeoutRef, timerLeft, queue,
                   tvars, pvars>>

\* One interval of watchFile passes and its stat runs: when it differs from
\* the last stat the listener is called with it.
Poll ==
    /\ wpc = "watching"
    /\ mode = "poll"
    /\ queue = <<>>
    /\ mVer # statVer \/ ObsClock(obs)
    /\ statVer' = mVer
    /\ queue' = IF mVer = statVer THEN <<>>
                ELSE IF manifest = "gone" THEN <<"gone">> ELSE <<"file">>
    /\ obs' = ObsTick(obs)
    /\ UNCHANGED <<mode, away, taken, attached, wpc, manifest, mVer, running, started,
                   lastRead, timeoutRef, timerLeft, nchg, tvars, pvars>>

\* The listener of watchFile runs with the stat of the poll: if
\* (curr.isFile()) it calls ProcessBooks, which reads books.json as it is now.
PollListener ==
    /\ wpc = "watching"
    /\ mode = "poll"
    /\ queue # <<>>
    /\ queue' = <<>>
    /\ IF Head(queue) = "file"
       THEN Call(ObsSignal(obs))
       ELSE UNCHANGED <<wpc, running, started, lastRead, obs>>
    /\ UNCHANGED <<mode, away, taken, attached, manifest, mVer, statVer, timeoutRef,
                   timerLeft, nchg, tvars, pvars>>

\* A tick passes in the other modes.  A timer that is due runs, and the
\* events that wait are read, before the next tick.
Tick ==
    /\ wpc = "watching"
    /\ mode # "poll"
    /\ timerLeft # 0
    /\ queue = <<>>
    /\ ~taken
    /\ timerLeft > 0 \/ ObsClock(obs)
    /\ timerLeft' = IF timerLeft > 0 THEN timerLeft - 1 ELSE timerLeft
    /\ obs' = ObsTick(obs)
    /\ UNCHANGED <<mode, away, taken, attached, wpc, manifest, mVer, statVer, running, started,
                   lastRead, timeoutRef, queue, nchg, tvars, pvars>>

\* The setTimeout callback of mode "debounce" runs: it calls ProcessBooks.
TimerFire ==
    /\ wpc = "watching"
    /\ mode = "debounce"
    /\ timerLeft = 0
    /\ timerLeft' = Absent
    /\ Call([obs EXCEPT !.timers = @ - 1])
    /\ UNCHANGED <<mode, away, taken, attached, manifest, mVer, statVer, timeoutRef, queue, nchg,
                   tvars, pvars>>

\* Whether a SIGINT ends the process.  With the handler of App installed it
\* does: the handler calls process.exit(0).  Before that (until App has
\* entered watch mode) and in mode "iter", which installs no handler, the signal has its
\* default effect: it ends the process, except where node is process 1 of
\* its container (CMD ["node", "app.js"]), which takes no signal by default.
SigintEnds ==
    IF wpc = "watching" /\ mode # "iter" THEN {TRUE} ELSE BOOLEAN

\* SIGINT is sent to the process.
Sigint ==
    /\ wpc \in {"start", "startup", "entering", "watching"}
    /\ \E ends \in SigintEnds :
          /\ wpc' = IF ends THEN "exited" ELSE wpc
          /\ running' = IF ends THEN {} ELSE running
          /\ timerLeft' = IF ends THEN Absent ELSE timerLeft
          /\ obs' = [obs EXCEPT !.sig = TRUE,
                                !.cut = IF ends THEN running ELSE @,
                                !.timers = IF ends THEN 0 ELSE @]
    /\ UNCHANGED <<mode, away, taken, attached, manifest, mVer, statVer, started, lastRead, timeoutRef,
                   queue, nchg, tvars, pvars>>

\* The variables of App when the process starts.
WatchStart ==
    /\ attached = FALSE
    /\ away = "none"
    /\ taken = FALSE
    /\ wpc = "start"
    /\ manifest \in Contents
    /\ mVer = 0
    /\ statVer = 0
    /\ running = {}
    /\ started = 0
    /\ lastRead = 0
    /\ timeoutRef = FALSE
    /\ timerLeft = Absent
    /\ queue = <<>>
    /\ nchg = 0
    /\ obs = ObsInit

InitWatch ==
    /\ mode \in Modes
    /\ WatchStart
    /\ template = DefaultTemplate
    /\ TemplateUnused
    /\ PassUnused

NextWatch ==
    \/ Startup
    \/ \E id \in running : FinishStartup(id)
    \/ EnterWatch
    \/ \E id \in running : FinishPass(id)
    \/ \E m \in Contents : WriteUnwatched(m)
    \/ \E m \in Contents : WritePoll(m)
    \/ \E m \in Contents : \E op \in Ops(m) : WriteWatched(m, op)
    \/ \E c \in Contents : WriteAway(c)
    \/ TakeDebounce
    \/ TakeIter
    \/ \E quick \in BOOLEAN : IterBody(quick)
    \/ \E ev \in ChokidarEvents : DirEvent(ev)
    \/ Poll
    \/ PollListener
    \/ Tick
    \/ TimerFire
    \/ Sigint

SpecWatch == InitWatch /\ [][NextWatch]_vars

---------------------------------------------------------------------------
(* SpecApp: App from its first line to watch mode, with the startup pass   *)
(* in full: the steps of ProcessBooks and of its copy tasks.               *)

\* App starts, and the startup pass it calls begins.
StartupPass ==
    /\ AppStart
    /\ IF wpc' = "startup"
       THEN PassBegin /\ UNCHANGED <<books, files, dirs, faulty>>
       ELSE UNCHANGED pvars
    /\ UNCHANGED <<mode, away, taken, attached, manifest, mVer, statVer,
                   timeoutRef, timerLeft, queue, nchg, tvars>>

\* The steps of the startup pass, while the process lives.
StartupSteps == wpc = "startup" /\ PassSteps

\* `await ProcessBooks(...)` of the startup pass resumes when the pass is
\* over.
StartupOver == ppc = "idle" /\ \E id \in running : FinishStartup(id)

InitApp ==
    /\ faulty = FALSE
    /\ mode \in Modes
    /\ InitTrees
    /\ WatchStart

NextApp ==
    \/ StartupPass
    \/ StartupSteps
    \/ StartupOver
    \/ EnterWatch
    \/ Sigint

SpecApp == InitApp /\ [][NextApp]_vars

\* Nothing is in progress and nothing is pending: without a further change
\* the watch loop takes no step.
Quiescent ==
    /\ wpc = "watching"
    /\ running = {}
    /\ timerLeft = Absent
    /\ ~timeoutRef
    /\ queue = <<>>
    /\ ~taken
    /\ mode = "poll" => statVer = mVer

---------------------------------------------------------------------------
(* Claims about the Watch Loop: SpecWatch *)

\* C1: no two ProcessBooks calls are ever in progress at the same time.
C1_NoOverlap == Cardinality(running) <= 1

\* C2: when change signals arrived while a pass was in progress, and none
\* after it completed, then once everything has settled exactly one pass has
\* been started since the first of those signals.
C2_OneFollowUp ==
    (Quiescent /\ obs.procSig >= 1 /\ ~obs.other) => obs.follow = 1

\* C3: when three change signals arrive within one debounce window of the
\* first, which found the watch loop idle, and none later, at most one pass
\* is started for them, and exactly one once everything has settled.
C3_Coalesce ==
    (obs.n = 3 /\ ~obs.spoiled) =>
        /\ obs.pass <= 1
        /\ Quiescent => obs.pass = 1

\* C4: once everything has settled after a change of books.json made while
\* watching, which left a manifest that parses, a pass has read the manifest
\* as that change left it.
C4_ChangeSynced ==
    (Quiescent /\ obs.late /\ manifest = "ok") => lastRead = mVer

\* C11: the process does not end on a manifest that fails to parse in a
\* triggered pass: it ends that way only in the startup pass, the first call
\* of ProcessBooks.
C11_ParseContained == wpc = "crashed" => started <= 1

\* C12: when the process has exited on SIGINT, no pass was in progress at the
\* exit: a pass in progress when the signal arrives is completed first.
C12_Drain == wpc = "exited" => obs.cut = {}

\* C13: once SIGINT has been sent, in whatever state, the watch loop is
\* terminated: the process has exited, no timer is pending and no pass is in
\* progress or will be started.
C13_Terminated ==
    obs.sig => (wpc = "exited" /\ timerLeft = Absent /\ running = {})

\* C21: in the event-watch loop with the timer a triggered pass starts only
\* when a full debounce interval has passed since the most recent change
\* signal: at the start of the most recent triggered pass the last signal was
\* at least WaitTicks ticks old.
C21_QuiescenceWindow ==
    (mode = "debounce" /\ obs.gap # Absent) => obs.gap >= WaitTicks

\* A step of the event-watch loop with the timer: a timer is set only for a
\* 'change' event that finds timeoutRef unset, and sets it; a pass is started
\* only by the timer that is due, which is then no longer outstanding; an
\* event that is not a 'change' sets no timer and starts no pass.
TimerStep ==
    (mode = "debounce" /\ wpc = "watching") =>
        /\ obs'.timers > obs.timers =>
              /\ ~timeoutRef /\ timeoutRef'
              /\ TakeDebounce
              /\ \E i \in DOMAIN queue : EventType(queue[i]) = "change"
        /\ started' # started =>
              /\ timerLeft = 0 /\ obs.timers = 1
              /\ started' = started + 1
              /\ timerLeft' = Absent /\ obs'.timers = 0
        /\ ((\E m \in Contents : \E op \in Ops(m) : WriteWatched(m, op))
              \/ (\E c \in Contents : WriteAway(c))
              \/ (TakeDebounce
                    /\ \A i \in DOMAIN queue : EventType(queue[i]) # "change")) =>
              /\ UNCHANGED <<timerLeft, timeoutRef, started, running>>
              /\ obs'.timers = obs.timers

\* C24: in the event-watch loop with the timer at most one timer is
\* outstanding at any time, timeoutRef is set while it is, and every step is a
\* TimerStep.
C24_SingleTimer ==
    /\ [](mode = "debounce" =>
            /\ obs.timers <= 1
            /\ obs.timers = 1 => timeoutRef
            /\ (obs.timers = 1) = (timerLeft # Absent))
    /\ [][TimerStep]_vars

\* Two 'change' events arrived within the debounce interval and one pass,
\* the second call of ProcessBooks, was started by the timer.
C24_Witness ==
    /\ mode = "debounce"
    /\ obs.n >= 2 /\ ~obs.spoiled
    /\ obs.pass = 1 /\ started = 2
    /\ obs.timers = 0

\* C14: before watch mode nothing but the startup pass, the first call of
\* ProcessBooks, is started, no event is taken and no timer is armed; watch
\* mode is entered only when the startup pass has completed, and every other
\* pass is started in watch mode.
C14_StartupFirst ==
    /\ wpc = "start" => (started = 0 /\ running = {})
    /\ wpc = "startup" => (started = 1 /\ running = {1})
    /\ wpc \in {"start", "startup"} =>
          /\ obs.n = 0 /\ obs.pass = 0
          /\ timerLeft = Absent /\ ~timeoutRef
          /\ queue = <<>> /\ statVer = 0
    /\ wpc = "entering" =>
          /\ started = 1 /\ running = {}
          /\ obs.n = 0 /\ obs.pass = 0
          /\ timerLeft = Absent /\ ~timeoutRef
          /\ queue = <<>> /\ ~attached
    /\ wpc = "watching" => (started >= 1 /\ 1 \notin running)
    /\ \A id \in running : id >= 2 => wpc = "watching"

\* Watch mode has been entered and a triggered pass is in progress.
C14_Witness == wpc = "watching" /\ started >= 2 /\ running # {}

\* When books.json is absent at startup nothing has been done: no
\* ProcessBooks call, no directory or file created, no watcher, event or
\* timer; and the process has not got past its check of books.json: it has
\* thrown, or has yet to make the check, or a signal ended it before.
AbsentIdle ==
    manifest = "gone" =>
        /\ wpc \in {"start", "crashed"} \/ (wpc = "exited" /\ obs.sig)
        /\ started = 0 /\ running = {}
        /\ passNo = 0 /\ tasks = <<>> /\ msgs = <<>>
        /\ files = snap /\ dirs = DirsOf(snap)
        /\ ~attached /\ queue = <<>> /\ statVer = 0
        /\ obs.n = 0 /\ timerLeft = Absent /\ ~timeoutRef

\* With books.json absent the one step App takes is the throw.
AbortStep ==
    (manifest = "gone" /\ wpc' # wpc) =>
        \/ wpc' = "crashed" /\ StartupPass
        \/ wpc' = "exited" /\ Sigint

\* C15: when books.json is absent at startup App throws before anything
\* else: ProcessBooks is never called, nothing is created under the output
\* root (the tree is what it was), and watch mode is not entered (no watcher,
\* no event, no timer).
C15_AbsentAborts == []AbsentIdle /\ [][AbortStep]_vars

\* App has thrown for the absent books.json, with files under the input and
\* the output root.
C15_Witness ==
    /\ wpc = "crashed" /\ manifest = "gone" /\ started = 0
    /\ \E p, q \in AllPaths :
          p[1] = OutputRoot /\ q[1] = InputRoot
              /\ files[p] # Absent /\ files[q] # Absent

---------------------------------------------------------------------------
(* Claims about a pass: SpecPass and SpecFault *)

\* A ProcessBooks call has been made and none is in progress; tasks holds the
\* tasks of the last call and of the calls that were in progress when it was
\* made.
PassDone == ppc = "idle" /\ passNo >= 1

\* No earlier call was in progress when the last call was made: tasks holds
\* the tasks of the last call only.
Alone == \A i \in DOMAIN tasks : tasks[i].pass = passNo

\* The message of record r in the last call.
Msg(r) == msgs[<<passNo, r>>]

\* Two tasks of the pass have the same destination and sources that exist
\* with different sizes.
Conflict ==
    \E i, j \in DOMAIN tasks :
        /\ i # j
        /\ tasks[i].output = tasks[j].output
        /\ files[tasks[i].input] # Absent
        /\ files[tasks[j].input] # Absent
        /\ files[tasks[i].input] # files[tasks[j].input]

\* What a second run in succession must look like: no copyFile call, every
\* task whose source exists skipped, every file as the first run left it.
SecondRunIdle ==
    /\ \A i \in DOMAIN tasks :
          /\ ~tasks[i].wrote
          /\ tasks[i].srcEx => tasks[i].outcome = "skipped"
    /\ files = snap

PrevKept(d) ==
    LET prev == hist[passNo - 1]
    IN  /\ \E k \in DOMAIN prev :
              prev[k].output = d /\ prev[k].outcome \in {"copied", "skipped"}
        /\ \A k \in DOMAIN prev : prev[k].output = d => ~prev[k].threw

PolicyOutcome(srcEx, dstEx, inSz, outSz) ==
    IF ~srcEx THEN "failed"
    ELSE IF ~dstEx THEN "copied"
    ELSE IF inSz = outSz THEN "skipped"
    ELSE "copied"

\* Task i is a task of the last call, and no other task of it or of a call
\* in progress with it has the destination of task i.
Unshared(i) ==
    /\ tasks[i].pass = passNo
    /\ \A j \in DOMAIN tasks : j # i => tasks[j].output # tasks[i].output

\* C6: the outcome of every task that has finished is the policy's outcome for
\* what the task saw (existsSync of source and destination, the two sizes
\* stat gave), no copyFile call was made on failed and skipped and one was
\* made on copied; what the task saw of its source is the source's state, and
\* what a task that shares its destination with no other task saw of the
\* destination is the destination's state when the pass started.
C6_OutcomePolicy ==
    \A i \in DOMAIN tasks :
        LET t == tasks[i] IN
        t.pc = "done" =>
            /\ t.outcome = PolicyOutcome(t.srcEx, t.dstEx, t.inSz, t.outSz)
            /\ t.outcome \in {"failed", "skipped"} => ~t.wrote
            /\ t.outcome = "copied" => t.wrote
            /\ t.srcEx = (files[t.input] # Absent)
            /\ t.inSz # Absent => t.inSz = files[t.input]
            /\ Unshared(i) =>
                  /\ t.srcEx => t.dstEx = (snap[t.output] # Absent)
                  /\ t.outSz # Absent => t.outSz = snap[t.output]
                  /\ t.outcome =
                        PolicyOutcome(files[t.input] # Absent,
                                      snap[t.output] # Absent,
                                      files[t.input], snap[t.output])

\* One pass has seen all three outcomes of distinct branches: a missing
\* source, an equal size and a differing size.
C6_Witness ==
    /\ PassDone
    /\ \E i, j, k \in DOMAIN tasks :
          /\ tasks[i].outcome = "failed"
          /\ tasks[j].outcome = "skipped"
          /\ tasks[k].outcome = "copied" /\ tasks[k].dstEx

\* Task i is a task of the last call, its source exists and, when the call
\* was made, its destination existed with another size.
Mismatch(i) ==
    /\ tasks[i].pass = passNo
    /\ files[tasks[i].input] # Absent
    /\ snap[tasks[i].output] # Absent
    /\ snap[tasks[i].output] # files[tasks[i].input]

\* The destination of task i has been overwritten by a copyFile call of the
\* pass, and its size is now the size of the source of task i.
Overwritten(i) ==
    /\ \E j \in DOMAIN tasks :
          tasks[j].output = tasks[i].output /\ tasks[j].wrote
    /\ tasks[i].outcome \in {"copied", "skipped"}
    /\ files[tasks[i].output] = files[tasks[i].input]

\* C7 as stated: for any task whose source exists with size s and whose
\* destination exists with another size, once the pass has executed the task
\* the destination has been overwritten and its final size is s.
C7_Overwrite ==
    PassDone => \A i \in DOMAIN tasks : Mismatch(i) => Overwritten(i)

\* No other task has the destination of task i together with a source of
\* another size, and the copyFile call of no other task with that destination
\* was rejected.
Uncontested(i) ==
    \A j \in DOMAIN tasks :
        (j # i /\ tasks[j].output = tasks[i].output) =>
            /\ files[tasks[j].input] \in {Absent, files[tasks[i].input]}
            /\ ~tasks[j].threw

\* C7 amended: for any task whose source exists with size s and whose
\* destination exists with another size and is not contested, once the pass
\* has executed the task either its own copyFile call was rejected and the
\* task is logged as failed, or the destination has been overwritten and its
\* final size is s.
C7_OverwriteUncontested ==
    PassDone =>
        \A i \in DOMAIN tasks :
            (Mismatch(i) /\ Uncontested(i)) =>
                \/ tasks[i].threw /\ tasks[i].outcome = "failed"
                \/ Overwritten(i)

\* A destination larger than its source has been overwritten in a pass in
\* which the copy of another task failed.
C7_Witness ==
    /\ PassDone
    /\ \E i, j \in DOMAIN tasks :
          /\ Mismatch(i) /\ Uncontested(i)
          /\ snap[tasks[i].output] > files[tasks[i].input]
          /\ Overwritten(i)
          /\ tasks[j].threw

\* Task i reached the outcome its own source and destination give it.
OwnOutcome(i) == tasks[i].outcome \in {"copied", "skipped"}

\* C8 as stated: when a pass has completed every task has a terminal outcome,
\* and whatever other tasks failed (missing source or failed copy), every
\* task whose source exists and whose own copy did not fail is copied or
\* skipped.
C8_Isolation ==
    PassDone =>
        \A i \in DOMAIN tasks :
            /\ tasks[i].outcome \in {"copied", "skipped", "failed"}
            /\ ~tasks[i].srcEx => tasks[i].outcome = "failed"
            /\ (tasks[i].srcEx /\ ~tasks[i].threw) => OwnOutcome(i)

\* A failed copyFile call of another task had the destination of task i.
SharedWithFailedCopy(i) ==
    \E j \in DOMAIN tasks :
        j # i /\ tasks[j].threw /\ tasks[j].output = tasks[i].output

\* What holds of C8: the same for every task that does not share its
\* destination with a task whose copy failed; in particular a record with two
\* audio files of which exactly one source is missing yields one failed
\* outcome and, for the other file, copied or skipped unless that file's own
\* copy fails.
C8_IsolationOwnDestination ==
    PassDone =>
        \A i \in DOMAIN tasks :
            /\ tasks[i].outcome \in {"copied", "skipped", "failed"}
            /\ ~tasks[i].srcEx => tasks[i].outcome = "failed"
            /\ (tasks[i].srcEx /\ ~tasks[i].threw /\ ~SharedWithFailedCopy(i))
                  => OwnOutcome(i)

\* A record with two audio files, one source missing: one failed outcome and
\* one copied outcome.
C8_Witness ==
    /\ PassDone
    /\ \E i, j \in DOMAIN tasks :
          /\ i # j /\ tasks[i].rec = tasks[j].rec
          /\ tasks[i].outcome = "failed" /\ ~tasks[i].srcEx
          /\ tasks[j].outcome = "copied"

\* The copy tasks of record r in the last call.
TasksOf(r) == {i \in DOMAIN tasks : tasks[i].pass = passNo /\ tasks[i].rec = r}

\* The copy tasks of the last call, in the order they were made.
LastTasks == SelectSeq(tasks, LAMBDA t : t.pass = passNo)

\* The records of the manifest whose message is the success message, in
\* manifest order.
KeptBooks ==
    LET idx == SelectSeq([i \in 1..Len(books) |-> i], LAMBDA i : Msg(i) = "ok")
    IN  [k \in DOMAIN idx |-> books[idx[k]]]

RECURSIVE PlanOf(_)
\* The sources and destinations a pass over the manifest m plans, in order.
PlanOf(m) ==
    IF m = <<>> THEN <<>>
    ELSE SourceFiles(Head(m), OutputPath(template, Head(m))) \o PlanOf(Tail(m))

\* C16 as stated: when a pass has completed every record has its summary
\* message, and a record one of whose files met an exception while it was
\* copied (a missing source, a rejected copyFile) has the failure message.
C16_RecordContained ==
    PassDone =>
        /\ \A r \in 1..Len(books) : <<passNo, r>> \in DOMAIN msgs
        /\ \A r \in 1..Len(books) :
              /\ Msg(r) \in {"ok", "error"}
              /\ (\E i \in TasksOf(r) : tasks[i].outcome = "failed")
                    => Msg(r) = "error"

\* What holds of C16: an exception raised while a record is planned (its
\* target directory cannot be made) gives that record the failure message and
\* no copy task, the pass completes, and the copy tasks of the pass are those
\* of the manifest without the failed records, every one with a terminal
\* outcome; an exception raised while a file is copied is caught by the task
\* and leaves the record its success message.
C16_PlanningContained ==
    PassDone =>
        /\ \A r \in 1..Len(books) : <<passNo, r>> \in DOMAIN msgs
        /\ \A r \in 1..Len(books) :
              /\ Msg(r) \in {"ok", "error"}
              /\ Msg(r) = "error" => TasksOf(r) = {}
              /\ (\E i \in TasksOf(r) : tasks[i].outcome = "failed")
                    => Msg(r) = "ok"
        /\ [i \in DOMAIN LastTasks |-> [input |-> LastTasks[i].input,
                                         output |-> LastTasks[i].output]]
              = PlanOf(KeptBooks)
        /\ \A i \in DOMAIN tasks :
              /\ tasks[i].pc = "done"
              /\ tasks[i].outcome \in {"copied", "skipped", "failed"}

\* The first record of a manifest has audio files and the failure message,
\* and a file of the second record was copied in the same pass.
C16_Witness ==
    /\ PassDone
    /\ Len(books) = 2
    /\ Msg(1) = "error"
    /\ SourceFiles(books[1], <<>>) # <<>>
    /\ \E i \in TasksOf(2) : tasks[i].outcome = "copied"

\* The path p is the directory root or lies under it.
Under(p, root) == Len(p) >= 1 /\ p[1] = root

\* What one step of a pass may do to the file system: nothing under the
\* input root; no file and no directory is removed; a directory that appears
\* lies under the output root and appears in a planning step; a file that
\* appears or changes is the destination of a copy task; a planning step
\* changes no file.
OneDirectionalStep ==
    /\ \A p \in AllPaths : Under(p, InputRoot) => files'[p] = files[p]
    /\ \A d \in dirs' \ dirs : Under(d, OutputRoot)
    /\ \A p \in AllPaths : files[p] # Absent => files'[p] # Absent
    /\ dirs \subseteq dirs'
    /\ dirs' # dirs => recIdx' = recIdx + 1
    /\ \A p \in AllPaths :
          files'[p] # files[p] => \E i \in DOMAIN tasks : tasks[i].output = p
    /\ recIdx' # recIdx => files' = files

\* C17: every step of every pass, the steps of failing copies included, is
\* a step of a one-directional copy.
C17_OneDirectional == [][OneDirectionalStep]_vars

\* The audio files of record r, in the record's order.
AudioOf(r) == SelectSeq(books[r].files, LAMBDA f : f.kind = "audio")

\* The copy tasks of record r in call p, in the order they were made.
TaskSeqOf(p, r) == SelectSeq(tasks, LAMBDA t : t.pass = p /\ t.rec = r)

\* The records of call p that have been planned.
Planned(p) == IF p = passNo THEN 1..(recIdx - 1) ELSE 1..Len(books)

\* C19: every record that has been planned has one task per audio file, in
\* order, and none besides; the task's source is the file's path under
\* inputRoot/books, its destination is the last segment of the file's path
\* directly under outputRoot/<resolved template>.
C19_PlannerTasks ==
    /\ \A i \in DOMAIN tasks : tasks[i].rec \in Planned(tasks[i].pass)
    /\ \A p \in Tracked(tasks, passNo) : \A r \in Planned(p) :
          /\ Len(TaskSeqOf(p, r)) = Len(AudioOf(r))
          /\ \A k \in DOMAIN AudioOf(r) :
                LET segs == Split(AudioOf(r)[k].path)
                    t == TaskSeqOf(p, r)[k]
                IN  /\ t.input = <<InputRoot, <<"books">>>> \o segs
                    /\ t.output = <<OutputRoot>>
                                     \o Split(Resolve(template, books[r]))
                                     \o <<segs[Len(segs)]>>

\* The record with an audio file in a subdirectory and a cover image has been
\* planned: its one task copies in/books/d/x.m4b to out/A/T/x.m4b.
C19_Witness ==
    \E r \in 1..(recIdx - 1) :
        /\ r <= Len(books)
        /\ books[r] = BookSub
        /\ Cardinality(TasksOf(r)) = 1
        /\ \E i \in TasksOf(r) :
              /\ tasks[i].input = <<<<"in">>, <<"books">>, <<"d">>, <<"x.m4b">>>>
              /\ tasks[i].output = <<<<"out">>, <<"A">>, <<"T">>, <<"x.m4b">>>>

\* A copy task whose copyFile call has been issued and has not been resumed
\* from.
InFlight(i) == tasks[i].pc \in {"copy", "copying", "copied", "threw"}

\* The calls made that have an unplanned record or a copy task without a
\* terminal outcome.
Unjoined ==
    {p \in Tracked(tasks, passNo) :
        \/ p = passNo /\ recIdx <= Len(books) /\ passNo >= 1
        \/ \E i \in DOMAIN tasks : tasks[i].pass = p /\ tasks[i].pc # "done"}

\* C20: when ProcessBooks has returned, every record has returned its
\* message and every copy task of the pass has a terminal outcome; no task is
\* waiting to start and no copy is in flight, also when copies or the
\* planning of a record failed.  No call is reported complete while one of
\* its records or tasks is outstanding.
C20_PassIsJoin ==
    /\ Len(hist) <= passNo - Cardinality(Unjoined)
    /\ PassDone =>
        /\ recIdx = Len(books) + 1
        /\ \A r \in 1..Len(books) : <<passNo, r>> \in DOMAIN msgs
        /\ \A i \in DOMAIN tasks :
              /\ ~InFlight(i)
              /\ tasks[i].pc = "done"
              /\ tasks[i].outcome \in {"copied", "skipped", "failed"}

\* A pass over two records has completed; a copy of the first record failed
\* and a file of the second record was copied.
C20_Witness ==
    /\ PassDone
    /\ Len(books) = 2
    /\ \E i \in TasksOf(1) : tasks[i].threw /\ tasks[i].outcome = "failed"
    /\ \E j \in TasksOf(2) : tasks[j].outcome = "copied"

\* The messages of a pass so far: a record has at most the success or the
\* failure message, and the success message when it has copy tasks, whatever
\* their outcomes; a pass that has completed has a message for every record
\* and has completed as a pass, with its outcomes collected.
MessagesSound ==
    /\ \A pr \in DOMAIN msgs :
          /\ pr[1] \in Tracked(tasks, passNo) /\ pr[2] \in 1..Len(books)
          /\ msgs[pr] \in {"ok", "error"}
          /\ (\E i \in DOMAIN tasks :
                  tasks[i].pass = pr[1] /\ tasks[i].rec = pr[2])
                => msgs[pr] = "ok"
    /\ PassDone =>
          /\ DOMAIN msgs = Tracked(tasks, passNo) \X (1..Len(books))
          /\ Len(hist) = passNo

\* Within a pass the message of a record, once returned, is not returned
\* again or replaced.
MessagesStable ==
    passNo' = passNo =>
        \A r \in DOMAIN msgs : r \in DOMAIN msgs' /\ msgs'[r] = msgs[r]

\* C22: each record yields one summary message per pass, the success message
\* when its planning succeeded, also when its copy tasks failed; and the
\* pass completes.
C22_NoEscalation == []MessagesSound /\ [][MessagesStable]_vars

\* A pass has completed in which every copy task of a record failed, one of
\* them in copyFile, and the record has the success message.
C22_Witness ==
    /\ PassDone
    /\ \E r \in DOMAIN msgs :
          /\ r[1] = passNo
          /\ TasksOf(r[2]) # {}
          /\ \A i \in TasksOf(r[2]) : tasks[i].outcome = "failed"
          /\ \E i \in TasksOf(r[2]) : tasks[i].threw
          /\ msgs[r] = "ok"

\* What a reader of the destination p may find when copies are atomic:
\* nothing, the file that was there when the pass started, or the whole of
\* a source copied to p.
WholeFile(p) ==
    \/ files[p] = Absent
    \/ files[p] = snap[p]
    \/ \E i \in DOMAIN tasks :
          tasks[i].output = p /\ files[p] = files[tasks[i].input]

\* C23: in every state, the states in which a copy task is executing
\* included, every file under the output root is a whole file.
C23_Atomic ==
    \A p \in AllPaths : Under(p, OutputRoot) => WholeFile(p)

---------------------------------------------------------------------------
(* Claims about the Path Template Engine: SpecTemplate *)

RECURSIVE PositionalFrom(_, _, _)
\* The template with each placeholder replaced at its own position by the
\* string form of the field it names, "undefined" for a field the record does
\* not hold, and every other atom kept.
PositionalFrom(t, i, b) ==
    IF i > Len(t) THEN <<>>
    ELSE IF MatchAt(t, i)
         THEN (IF HasField(b, t[i + 1]) THEN String(Field(b, t[i + 1]))
               ELSE <<"undefined">>)
              \o PositionalFrom(t, i + 3, b)
    ELSE <<t[i]>> \o PositionalFrom(t, i + 1, b)

Positional(t, b) == PositionalFrom(t, 1, b)

\* The record holds every field the template names, and the template's
\* literal text holds no format directive.
PlainCase ==
    /\ \A i \in DOMAIN Vars(template) : HasField(book, Vars(template)[i])
    /\ \A i \in DOMAIN template : template[i] \notin {"%", "%s", "%%"}

\* C9 as stated: the resolved string is the template with each placeholder
\* occurrence replaced at its own position by the record's field, whatever the
\* order of the record's fields and however often a placeholder occurs.
C9_Positional ==
    (tpc = "done" /\ PlainCase) => resolved = Positional(template, book)

MissingFieldTemplate ==
    <<"{", "nonexistent_field", "}", "/", "{", "title_short", "}">>

\* C10 as stated: {nonexistent_field}/{title_short} against a record that
\* lacks nonexistent_field resolves to "undefined", "/", the title_short.
C10_MissingUndefined ==
    (tpc = "done" /\ template = MissingFieldTemplate
        /\ HasField(book, "title_short")) =>
        resolved = <<"undefined", "/">> \o String(Field(book, "title_short"))

\* The records b1 and b2 hold the same fields among those the template t
\* names, with the same values: they differ at most in fields t does not name.
SameNamedFields(t, b1, b2) ==
    \A n \in Range(Vars(t)) :
        /\ HasField(b1, n) = HasField(b2, n)
        /\ HasField(b1, n) => Field(b1, n) = Field(b2, n)

\* C18: a record that holds the same values as the resolved record in every
\* field the template names resolves to the same string.
C18_Deterministic ==
    tpc = "done" =>
        \A b \in TemplateBooks :
            SameNamedFields(template, book, b) => Resolve(template, b) = resolved

===========================================================================
